---- MODULE Spec2Model ----
(***************************************************************************)
(* Infinite-canvas note board (App.tsx, components/Canvas.tsx, Note).       *)
(*                                                                         *)
(* The board is modelled as the state of the three React components (App,  *)
(* Canvas, one Note per note) and one action per DOM event reaching a      *)
(* handler.  Each action is a whole handler run followed by the re-render: *)
(* the closures of the next event see the state the previous one left.     *)
(*                                                                         *)
(* JavaScript numbers are modelled as exact rationals <<n, d>> in lowest   *)
(* terms (d > 0); rounding of IEEE doubles is outside the model.           *)
(***************************************************************************)
EXTENDS Integers, Sequences, FiniteSets, TLC

(***************************************************************************)
(* Bounds of the model (not program constants).                            *)
(***************************************************************************)
MaxNotes == 2        \* notes created in one run
MaxSteps == 4        \* events of one run of the whole board (Spec)
MaxListeners == 2    \* resize listeners attached at once
MaxViewWheel == 2    \* modified wheel events (SpecViewport)
MaxPresses == 1      \* view-button presses after the first of them (SpecViewport)
MaxCalls == 4        \* calls of the collection's operations (SpecApi)
MaxSessionSteps == 6 \* events handled in one run (SpecSessions)
MaxCreated == 8      \* notes created in one run (SpecColors)
MaxLive == 2         \* notes on the board at once (SpecColors)
MaxStreak == 21      \* presses of the zoom-in button in a row that are told apart

(***************************************************************************)
(* Rational arithmetic.                                                    *)
(***************************************************************************)
RECURSIVE GCD(_, _)
GCD(a, b) == IF b = 0 THEN a ELSE GCD(b, a % b)

Abs(a) == IF a < 0 THEN -a ELSE a

Norm(n, d) ==
    LET s == IF d < 0 THEN -1 ELSE 1
        g == GCD(Abs(n), Abs(d))
    IN  <<(s * n) \div g, (s * d) \div g>>

R(n) == <<n, 1>>
\* Sums over the least common denominator and products with the common factors
\* cancelled first, to keep the intermediate integers small.
RAdd(a, b) ==
    LET g == GCD(a[2], b[2])
    IN  Norm(a[1] * (b[2] \div g) + b[1] * (a[2] \div g), (a[2] \div g) * b[2])
RSub(a, b) == RAdd(a, <<-b[1], b[2]>>)
RMul(a, b) ==
    LET g == GCD(Abs(a[1]), b[2])
        h == GCD(Abs(b[1]), a[2])
    IN  Norm((a[1] \div g) * (b[1] \div h), (a[2] \div h) * (b[2] \div g))
RDiv(a, b) == RMul(a, IF b[1] < 0 THEN <<-b[2], -b[1]>> ELSE <<b[2], b[1]>>)
RLe(a, b) == a[1] * b[2] <= b[1] * a[2]
RMax(a, b) == IF RLe(a, b) THEN b ELSE a
RMin(a, b) == IF RLe(a, b) THEN a ELSE b

(***************************************************************************)
(* Program constants.                                                      *)
(***************************************************************************)
MIN_SCALE == <<1, 4>>
MAX_SCALE == <<3, 1>>
ZOOM_STEP == <<1, 10>>
NOTE_COLORS == <<"yellow", "blue", "green", "pink", "purple", "orange">>

NULL == 0

(***************************************************************************)
(* Inputs of the environment.                                              *)
(*   Rect    getBoundingClientRect() of the canvas container               *)
(*   Points  client coordinates of pointer events                          *)
(*   DownPoints  those of them where a button goes down                    *)
(*   Buttons MouseEvent.button: 0 primary, 1 middle, 2 secondary           *)
(***************************************************************************)
Rect == [left |-> 160, top |-> 56, width |-> 800, height |-> 600]
Points == {<<310, 106>>, <<430, 216>>, <<530, 266>>}
DownPoints == {<<430, 216>>}
Buttons == {0, 1, 2}
Regions == {"body", "toolbar", "delete", "editor", "handle"}
Inner == {"toolbar", "delete", "editor"}
Keys == {"Delete", "Backspace", "Escape", "a"}
Contents == {"", "<p>a</p>"}

VARIABLES
    notes,              \* App: useState<Note[]>
    selectedNoteId,     \* App: useState<string | null>
    appNextColorIndex,  \* App: nextColorIndex
    nextId,             \* generateId: number of ids handed out so far, plus one
    canvasState,        \* Canvas: {scale, offsetX, offsetY}
    isPanning,          \* Canvas: useState(false)
    nextColorIndex,     \* Canvas: nextColorIndex
    panStartRef,        \* Canvas: useRef({x, y})
    canvasStartRef,     \* Canvas: useRef({x, y})
    noteView,           \* per mounted Note: isDragging, dragStartRef, noteStartRef
    resizeListeners,    \* window listeners added by resize handles, oldest first
    ev,                 \* the event handled last
    budget              \* events spent against the bounds

appVars == <<notes, selectedNoteId, appNextColorIndex, nextId>>
canvasVars == <<canvasState, isPanning, nextColorIndex, panStartRef, canvasStartRef>>
vars == <<notes, selectedNoteId, appNextColorIndex, nextId, canvasState, isPanning,
          nextColorIndex, panStartRef, canvasStartRef, noteView, resizeListeners,
          ev, budget>>

(***************************************************************************)
(* Helpers.                                                                *)
(***************************************************************************)
Ids(ns) == {ns[i].id : i \in 1..Len(ns)}

\* The event handled last: its kind; the note it targets or creates (NULL: none;
\* keydown: the note selected when the key went down); a number (mousedown: the
\* button; wheel: 1 with ctrl/meta; keydown: 1 on an editable target); a word
\* (keydown: the key; delete: "selected" when the note was the selected one;
\* mousedown: "inner" on a note's toolbar, delete control or editor;
\* wheel: "same" when the scale did not change; mousemove: "zoomed" when the event
\* before it was a wheel with ctrl/meta handled during a pan).  For a row of zoom-in presses
\* that began in the initial state the word is "init" and the number counts them.
\* s: the event deleted a note that was being dragged or resized, or is a mousemove
\* that follows such an event with nothing but mousemoves in between.
Ev(op, id, k, r) == [op |-> op, id |-> id, k |-> k, r |-> r, s |-> FALSE]

\* A Note component as first mounted: useState(false), useRef({x: 0, y: 0}) twice.
NewNoteView == [isDragging |-> FALSE,
                dragStartRef |-> <<0, 0>>,
                noteStartRef |-> <<R(0), R(0)>>]

\* The Note components after a render of ns: one per key, state kept per key.
Mounted(ns, view) ==
    [i \in Ids(ns) |-> IF i \in DOMAIN view THEN view[i] ELSE NewNoteView]

(***************************************************************************)
(* Viewport: the two coordinate conversions the code performs.             *)
(***************************************************************************)
\* (screen - offset) / scale, screen relative to the canvas container.
ToWorld(p, cs) ==
    <<RDiv(RSub(p[1], cs.offsetX), cs.scale), RDiv(RSub(p[2], cs.offsetY), cs.scale)>>

\* ToScreen with the transform list in the other order: scale(scale) translate(offset).
ToScreenScaleFirst(w, cs) ==
    <<RMul(RAdd(w[1], cs.offsetX), cs.scale), RMul(RAdd(w[2], cs.offsetY), cs.scale)>>

\* transform: translate(offset) scale(scale), origin top-left.
ToScreen(w, cs) ==
    <<RAdd(RMul(w[1], cs.scale), cs.offsetX), RAdd(RMul(w[2], cs.scale), cs.offsetY)>>

\* clientX - rect.left, clientY - rect.top
Local(p) == <<R(p[1] - Rect.left), R(p[2] - Rect.top)>>

Clamp(s) == RMax(MIN_SCALE, RMin(MAX_SCALE, s))

(***************************************************************************)
(* App: the note collection.                                               *)
(***************************************************************************)
\* { ...note, ...updates }
Merge(note, updates) ==
    [k \in DOMAIN note \cup DOMAIN updates |->
        IF k \in DOMAIN updates THEN updates[k] ELSE note[k]]

\* UpdateNotes putting the update in as a new note when no note has the id.
UpdateNotesUpsert(ns, id, updates) ==
    IF id \in Ids(ns)
    THEN [i \in 1..Len(ns) |-> IF ns[i].id = id THEN Merge(ns[i], updates) ELSE ns[i]]
    ELSE Append(ns, Merge([id |-> id], updates))

\* prev.map(note => note.id === id ? { ...note, ...updates } : note)
UpdateNotes(ns, id, updates) ==
    [i \in 1..Len(ns) |-> IF ns[i].id = id THEN Merge(ns[i], updates) ELSE ns[i]]

\* FilterNotes written as prev.splice(prev.findIndex(...), 1): with the note absent the
\* index is -1 and the last note goes.
FilterNotesSplice(ns, id) ==
    IF id \in Ids(ns) \/ ns = <<>> THEN SelectSeq(ns, LAMBDA n : n.id # id)
    ELSE SubSeq(ns, 1, Len(ns) - 1)

\* prev.filter(note => note.id !== id)
FilterNotes(ns, id) == SelectSeq(ns, LAMBDA n : n.id # id)

\* The setNotes updaters queued by one event, applied in order.
RECURSIVE ApplyUpdates(_, _)
ApplyUpdates(ns, calls) ==
    IF calls = <<>> THEN ns
    ELSE ApplyUpdates(UpdateNotes(ns, Head(calls).id, Head(calls).updates), Tail(calls))

NewNote(id, x, y, color, t) ==
    [id |-> id, x |-> x, y |-> y, content |-> "", width |-> R(300), height |-> R(200),
     color |-> color, createdAt |-> t]

\* noteColor || NOTE_COLORS[nextColorIndex % NOTE_COLORS.length]; "" stands for undefined
PickColor(noteColor, idx) ==
    IF noteColor # "" THEN noteColor ELSE NOTE_COLORS[(idx % Len(NOTE_COLORS)) + 1]

\* handleAddNote putting the new note first: [newNote, ...prev].
handleAddNotePrepend(x, y, noteColor, t) ==
    /\ appNextColorIndex' = appNextColorIndex + 1
    /\ notes' = <<NewNote(nextId, x, y, PickColor(noteColor, appNextColorIndex), t)>> \o notes
    /\ nextId' = nextId + 1
    /\ selectedNoteId' = nextId
    /\ noteView' = Mounted(notes', noteView)

\* handleAddNote without setSelectedNoteId(newNote.id).
handleAddNoteNoSelect(x, y, noteColor, t) ==
    /\ appNextColorIndex' = appNextColorIndex + 1
    /\ notes' = Append(notes, NewNote(nextId, x, y, PickColor(noteColor, appNextColorIndex), t))
    /\ nextId' = nextId + 1
    /\ selectedNoteId' = selectedNoteId
    /\ noteView' = Mounted(notes', noteView)

\* generateId's string (timestamp plus random suffix) is taken to differ from every
\* string it returned before: the model hands out 1, 2, ...
handleAddNote(x, y, noteColor, t) ==
    /\ appNextColorIndex' = appNextColorIndex + 1
    /\ notes' = Append(notes, NewNote(nextId, x, y, PickColor(noteColor, appNextColorIndex), t))
    /\ nextId' = nextId + 1
    /\ selectedNoteId' = nextId
    /\ noteView' = Mounted(notes', noteView)

handleUpdateNote(id, updates) ==
    /\ notes' = UpdateNotes(notes, id, updates)
    /\ noteView' = Mounted(notes', noteView)
    /\ UNCHANGED <<selectedNoteId, appNextColorIndex, nextId>>

\* handleDeleteNote without the selection update.
handleDeleteNoteKeepSelection(id) ==
    /\ notes' = FilterNotes(notes, id)
    /\ noteView' = Mounted(notes', noteView)
    /\ UNCHANGED <<selectedNoteId, appNextColorIndex, nextId>>

handleDeleteNote(id) ==
    /\ notes' = FilterNotes(notes, id)
    /\ selectedNoteId' = IF selectedNoteId = id THEN NULL ELSE selectedNoteId
    /\ noteView' = Mounted(notes', noteView)
    /\ UNCHANGED <<appNextColorIndex, nextId>>

handleSelectNote(id) ==
    /\ selectedNoteId' = id
    /\ UNCHANGED <<notes, appNextColorIndex, nextId, noteView>>

(***************************************************************************)
(* Canvas: panning, zooming, note creation.                                *)
(***************************************************************************)
\* handleCanvasMouseDown without the test of the event's target.
handleCanvasMouseDownAnyTarget(b, p, onCanvas) ==
    IF b = 1 \/ b = 0
    THEN /\ isPanning' = TRUE
         /\ panStartRef' = p
         /\ canvasStartRef' = <<canvasState.offsetX, canvasState.offsetY>>
         /\ selectedNoteId' = NULL
         /\ UNCHANGED <<canvasState, nextColorIndex>>
    ELSE UNCHANGED <<canvasVars, selectedNoteId>>

\* handleCanvasMouseDown without the call of onSelectNote(null).
handleCanvasMouseDownKeepSelection(b, p, onCanvas) ==
    IF b = 1 \/ (b = 0 /\ onCanvas)
    THEN /\ isPanning' = TRUE
         /\ panStartRef' = p
         /\ canvasStartRef' = <<canvasState.offsetX, canvasState.offsetY>>
         /\ UNCHANGED <<canvasState, nextColorIndex, selectedNoteId>>
    ELSE UNCHANGED <<canvasVars, selectedNoteId>>

\* handleCanvasMouseDown; onCanvas is e.target === canvasRef.current.
\* Calls onSelectNote(null) when it starts a pan.
handleCanvasMouseDown(b, p, onCanvas) ==
    IF b = 1 \/ (b = 0 /\ onCanvas)
    THEN /\ isPanning' = TRUE
         /\ panStartRef' = p
         /\ canvasStartRef' = <<canvasState.offsetX, canvasState.offsetY>>
         /\ selectedNoteId' = NULL
         /\ UNCHANGED <<canvasState, nextColorIndex>>
    ELSE UNCHANGED <<canvasVars, selectedNoteId>>

\* PanMove with the pointer delta divided by the scale, as the note drag divides it.
PanMoveScaled(p, cs) ==
    IF ~isPanning THEN cs
    ELSE [cs EXCEPT
            !.offsetX = RAdd(canvasStartRef[1], RDiv(R(p[1] - panStartRef[1]), cs.scale)),
            !.offsetY = RAdd(canvasStartRef[2], RDiv(R(p[2] - panStartRef[2]), cs.scale))]

\* PanMove adding the pointer delta to the offset of the previous move.
PanMoveIncremental(p, cs) ==
    IF ~isPanning THEN cs
    ELSE [cs EXCEPT !.offsetX = RAdd(cs.offsetX, R(p[1] - panStartRef[1])),
                    !.offsetY = RAdd(cs.offsetY, R(p[2] - panStartRef[2]))]

\* The pan effect's handleMouseMove.
PanMove(p, cs) ==
    IF ~isPanning THEN cs
    ELSE [cs EXCEPT !.offsetX = RAdd(canvasStartRef[1], R(p[1] - panStartRef[1])),
                    !.offsetY = RAdd(canvasStartRef[2], R(p[2] - panStartRef[2]))]

\* WheelZoom without the offset compensation (the scale set as the buttons set it).
WheelZoomNoAnchor(up, p, cs) ==
    [cs EXCEPT !.scale =
        Clamp(RAdd(cs.scale, IF up THEN ZOOM_STEP ELSE RSub(R(0), ZOOM_STEP)))]

\* handleWheel with ctrlKey || metaKey; up is deltaY <= 0.
WheelZoom(up, p, cs) ==
    LET delta == IF up THEN ZOOM_STEP ELSE RSub(R(0), ZOOM_STEP)
        newScale == Clamp(RAdd(cs.scale, delta))
        mouse == Local(p)
        scaleRatio == RDiv(newScale, cs.scale)
    IN  [scale |-> newScale,
         offsetX |-> RSub(mouse[1], RMul(RSub(mouse[1], cs.offsetX), scaleRatio)),
         offsetY |-> RSub(mouse[2], RMul(RSub(mouse[2], cs.offsetY), scaleRatio))]

\* zoomOut moving the offset so that the centre of the canvas area stays where it is.
ZoomOutStateCentred(cs) ==
    LET newScale == RMax(MIN_SCALE, RSub(cs.scale, ZOOM_STEP))
        ratio == RDiv(newScale, cs.scale)
        cx == RDiv(R(Rect.width), R(2))
        cy == RDiv(R(Rect.height), R(2))
    IN  [scale |-> newScale,
         offsetX |-> RSub(cx, RMul(RSub(cx, cs.offsetX), ratio)),
         offsetY |-> RSub(cy, RMul(RSub(cy, cs.offsetY), ratio))]

\* zoomIn without Math.min(MAX_SCALE, ...).
ZoomInStateNoClamp(cs) == [cs EXCEPT !.scale = RAdd(cs.scale, ZOOM_STEP)]

ZoomInState(cs) == [cs EXCEPT !.scale = RMin(MAX_SCALE, RAdd(cs.scale, ZOOM_STEP))]
ZoomOutState(cs) == [cs EXCEPT !.scale = RMax(MIN_SCALE, RSub(cs.scale, ZOOM_STEP))]

\* resetZoom that also puts the offset back to (0, 0), as centerCanvas does.
ResetZoomStateRecentre(cs) == [scale |-> R(1), offsetX |-> R(0), offsetY |-> R(0)]

ResetZoomState(cs) == [cs EXCEPT !.scale = R(1)]
CenterCanvasState == [scale |-> R(1), offsetX |-> R(0), offsetY |-> R(0)]

\* AddNotePosition from the centre of the canvas area in screen coordinates, the
\* viewport left out.
AddNotePositionScreen(cs) ==
    <<RSub(RDiv(R(Rect.width), R(2)), R(150)), RSub(RDiv(R(Rect.height), R(2)), R(100))>>

\* Canvas.handleAddNote: the note's top-left for the toolbar button.
AddNotePosition(cs) ==
    LET c == ToWorld(<<RDiv(R(Rect.width), R(2)), RDiv(R(Rect.height), R(2))>>, cs)
    IN  <<RSub(c[1], R(150)), RSub(c[2], R(100))>>

\* DoubleClickPosition from the client coordinates, rect.left and rect.top forgotten.
DoubleClickPositionClient(p, cs) ==
    LET w == ToWorld(<<R(p[1]), R(p[2])>>, cs)
    IN  <<RSub(w[1], R(150)), RSub(w[2], R(50))>>

\* handleDoubleClick: the note's top-left for a double-click at client point p.
DoubleClickPosition(p, cs) ==
    LET w == ToWorld(Local(p), cs)
    IN  <<RSub(w[1], R(150)), RSub(w[2], R(50))>>

\* CanvasColor indexed by the number of notes on the board, not by the counter.
CanvasColorByCount == NOTE_COLORS[(Len(notes) % Len(NOTE_COLORS)) + 1]

CanvasColor == NOTE_COLORS[(nextColorIndex % Len(NOTE_COLORS)) + 1]

(***************************************************************************)
(* Note: dragging and resizing.                                            *)
(***************************************************************************)
NoteOf(id) == CHOOSE n \in {notes[i] : i \in 1..Len(notes)} : n.id = id

\* DragUpdate with the pointer delta taken as a world delta, whatever the scale.
DragUpdateUnscaled(id, p, scale) ==
    LET v == noteView[id]
    IN  [id |-> id,
         updates |-> [x |-> RAdd(v.noteStartRef[1], R(p[1] - v.dragStartRef[1])),
                      y |-> RAdd(v.noteStartRef[2], R(p[2] - v.dragStartRef[2]))]]

\* DragUpdate passing the whole note as first mounted, with its empty content, next
\* to the new position.
DragUpdateWithContent(id, p, scale) ==
    LET v == noteView[id]
        deltaX == RDiv(R(p[1] - v.dragStartRef[1]), scale)
        deltaY == RDiv(R(p[2] - v.dragStartRef[2]), scale)
    IN  [id |-> id,
         updates |-> [x |-> RAdd(v.noteStartRef[1], deltaX),
                      y |-> RAdd(v.noteStartRef[2], deltaY),
                      content |-> ""]]

\* The drag effect's handleMouseMove of note id: the onUpdate call it makes.
DragUpdate(id, p, scale) ==
    LET v == noteView[id]
        deltaX == RDiv(R(p[1] - v.dragStartRef[1]), scale)
        deltaY == RDiv(R(p[2] - v.dragStartRef[2]), scale)
    IN  [id |-> id,
         updates |-> [x |-> RAdd(v.noteStartRef[1], deltaX),
                      y |-> RAdd(v.noteStartRef[2], deltaY)]]

\* ResizeUpdate without Math.max(200, ...) and Math.max(100, ...).
ResizeUpdateNoMin(l, p) ==
    LET deltaX == RDiv(R(p[1] - l.startX), l.canvasScale)
        deltaY == RDiv(R(p[2] - l.startY), l.canvasScale)
    IN  [id |-> l.id,
         updates |-> [width |-> RAdd(l.startWidth, deltaX),
                      height |-> RAdd(l.startHeight, deltaY)]]

\* handleResize of one listener l: the onUpdate call it makes.
ResizeUpdate(l, p) ==
    LET deltaX == RDiv(R(p[1] - l.startX), l.canvasScale)
        deltaY == RDiv(R(p[2] - l.startY), l.canvasScale)
    IN  [id |-> l.id,
         updates |-> [width |-> RMax(R(200), RAdd(l.startWidth, deltaX)),
                      height |-> RMax(R(100), RAdd(l.startHeight, deltaY))]]

\* The closure the resize handle's onMouseDown creates.
ResizeListener(id, p, scale) ==
    [id |-> id, startX |-> p[1], startY |-> p[2],
     startWidth |-> NoteOf(id).width, startHeight |-> NoteOf(id).height,
     canvasScale |-> scale]

\* The notes in rendering order whose drag listener is attached.
RECURSIVE DragCalls(_, _)
DragCalls(ns, p) ==
    IF ns = <<>> THEN <<>>
    ELSE (IF noteView[Head(ns).id].isDragging
          THEN <<DragUpdate(Head(ns).id, p, canvasState.scale)>> ELSE <<>>)
         \o DragCalls(Tail(ns), p)

ResizeCalls(p) == [i \in 1..Len(resizeListeners) |-> ResizeUpdate(resizeListeners[i], p)]

Dragging == {i \in DOMAIN noteView : noteView[i].isDragging}
Resizing == {resizeListeners[i].id : i \in 1..Len(resizeListeners)}
SessionActive == isPanning \/ Dragging # {} \/ resizeListeners # <<>>
InSession(id) == id \in Dragging \cup Resizing

(***************************************************************************)
(* Events.  Each action is one DOM event: every handler it reaches, then   *)
(* the re-render.                                                          *)
(***************************************************************************)
\* mousedown whose target is the canvas container itself.
MouseDownCanvas(b, p) ==
    /\ handleCanvasMouseDown(b, p, TRUE)
    /\ ev' = Ev("mousedown", NULL, b, "")
    /\ UNCHANGED <<notes, appNextColorIndex, nextId, noteView, resizeListeners>>

\* mousedown inside note id, by region: the resize handle stops propagation and adds
\* its listeners; toolbar, delete control and editor return from Note.handleMouseDown
\* and bubble to the canvas; anywhere else starts a drag.
MouseDownNote(id, region, b, p) ==
    /\ id \in Ids(notes)
    /\ ev' = Ev("mousedown", id, b, IF region \in Inner THEN "inner" ELSE "")
    /\ CASE region = "handle" ->
              /\ Len(resizeListeners) < MaxListeners
              /\ resizeListeners' =
                    Append(resizeListeners, ResizeListener(id, p, canvasState.scale))
              /\ UNCHANGED <<appVars, canvasVars, noteView>>
         [] region \in Inner ->
              /\ handleCanvasMouseDown(b, p, FALSE)
              /\ UNCHANGED <<notes, appNextColorIndex, nextId, noteView, resizeListeners>>
         [] OTHER ->
              /\ selectedNoteId' = id
              /\ noteView' = [noteView EXCEPT ![id] =
                    [isDragging |-> TRUE,
                     dragStartRef |-> p,
                     noteStartRef |-> <<NoteOf(id).x, NoteOf(id).y>>]]
              /\ UNCHANGED <<notes, appNextColorIndex, nextId, canvasVars, resizeListeners>>

\* mousemove on window: the pan listener, every attached drag listener, every
\* resize listener.
MouseMove(p) ==
    /\ canvasState' = PanMove(p, canvasState)
    /\ notes' = ApplyUpdates(notes, DragCalls(notes, p) \o ResizeCalls(p))
    /\ noteView' = Mounted(notes', noteView)
    /\ ev' = [Ev("mousemove", NULL, 0,
                 IF ev.op = "wheel" /\ ev.k = 1 /\ isPanning THEN "zoomed" ELSE "")
               EXCEPT !.s = ev.s]
    /\ UNCHANGED <<selectedNoteId, appNextColorIndex, nextId, isPanning, nextColorIndex,
                   panStartRef, canvasStartRef, resizeListeners>>

\* MouseUp with stopResize never registered for mouseup: the resize listeners stay.
MouseUpKeepResize ==
    /\ isPanning' = FALSE
    /\ noteView' = [i \in DOMAIN noteView |-> [noteView[i] EXCEPT !.isDragging = FALSE]]
    /\ ev' = Ev("mouseup", NULL, 0, "")
    /\ UNCHANGED <<appVars, canvasState, nextColorIndex, panStartRef, canvasStartRef,
                   resizeListeners>>

\* mouseup on window: setIsPanning(false), setIsDragging(false), stopResize.
MouseUp ==
    /\ isPanning' = FALSE
    /\ noteView' = [i \in DOMAIN noteView |-> [noteView[i] EXCEPT !.isDragging = FALSE]]
    /\ resizeListeners' = <<>>
    /\ ev' = Ev("mouseup", NULL, 0, "")
    /\ UNCHANGED <<appVars, canvasState, nextColorIndex, panStartRef, canvasStartRef>>

\* Wheel with the zoom applied whether or not ctrl/meta is held.
WheelAnyModifier(ctrl, up, p) ==
    /\ canvasState' = WheelZoom(up, p, canvasState)
    /\ ev' = Ev("wheel", NULL, IF ctrl THEN 1 ELSE 0,
                IF ctrl /\ canvasState'.scale = canvasState.scale THEN "same" ELSE "")
    /\ UNCHANGED <<appVars, isPanning, nextColorIndex, panStartRef, canvasStartRef,
                   noteView, resizeListeners>>

\* Wheel whose zoom also ends the pan in progress.
WheelEndsPan(ctrl, up, p) ==
    /\ canvasState' = IF ctrl THEN WheelZoom(up, p, canvasState) ELSE canvasState
    /\ isPanning' = IF ctrl THEN FALSE ELSE isPanning
    /\ ev' = Ev("wheel", NULL, IF ctrl THEN 1 ELSE 0,
                IF ctrl /\ canvasState'.scale = canvasState.scale THEN "same" ELSE "")
    /\ UNCHANGED <<appVars, nextColorIndex, panStartRef, canvasStartRef,
                   noteView, resizeListeners>>

\* wheel over the canvas container.
Wheel(ctrl, up, p) ==
    /\ canvasState' = IF ctrl THEN WheelZoom(up, p, canvasState) ELSE canvasState
    /\ ev' = Ev("wheel", NULL, IF ctrl THEN 1 ELSE 0,
                IF ctrl /\ canvasState'.scale = canvasState.scale THEN "same" ELSE "")
    /\ UNCHANGED <<appVars, isPanning, nextColorIndex, panStartRef, canvasStartRef,
                   noteView, resizeListeners>>

\* Whether a press of button op continues a row of zoom-in presses that began in the
\* initial state, and the presses of that row, counted up to MaxStreak.
StreakFrom(op) == IF op = "zoomIn" /\ (ev.op = "init" \/ (ev.op = op /\ ev.r = "init"))
                  THEN "init" ELSE ""
Streak(op) == IF StreakFrom(op) # "init" THEN 0
              ELSE IF ev.op = "init" THEN 1
              ELSE IF ev.k < MaxStreak THEN ev.k + 1 ELSE MaxStreak

ViewButton(op, cs) ==
    /\ canvasState' = cs
    /\ ev' = Ev(op, NULL, Streak(op), StreakFrom(op))
    /\ UNCHANGED <<appVars, isPanning, nextColorIndex, panStartRef, canvasStartRef,
                   noteView, resizeListeners>>

zoomIn == ViewButton("zoomIn", ZoomInState(canvasState))
zoomOut == ViewButton("zoomOut", ZoomOutState(canvasState))
resetZoom == ViewButton("resetZoom", ResetZoomState(canvasState))
centerCanvas == ViewButton("centerCanvas", CenterCanvasState)

\* Canvas.handleAddNote (toolbar button); t is Date.now().
AddNoteButton(t) ==
    /\ LET pos == AddNotePosition(canvasState)
       IN  handleAddNote(pos[1], pos[2], CanvasColor, t)
    /\ nextColorIndex' = nextColorIndex + 1
    /\ ev' = Ev("add", nextId, 0, "")
    /\ UNCHANGED <<canvasState, isPanning, panStartRef, canvasStartRef, resizeListeners>>

\* dblclick on the canvas container itself.
DoubleClickCanvas(p, t) ==
    /\ LET pos == DoubleClickPosition(p, canvasState)
       IN  handleAddNote(pos[1], pos[2], CanvasColor, t)
    /\ nextColorIndex' = nextColorIndex + 1
    /\ ev' = Ev("dblclick", nextId, 0, "")
    /\ UNCHANGED <<canvasState, isPanning, panStartRef, canvasStartRef, resizeListeners>>

\* dblclick whose target is inside a note: e.target !== canvasRef.current.
DoubleClickNote(id, p) ==
    /\ id \in Ids(notes)
    /\ ev' = Ev("dblclick", id, 0, "")
    /\ UNCHANGED <<appVars, canvasVars, noteView, resizeListeners>>

\* click reaching the note's onClick, or a row of the layers panel.
SelectClick(op, id) ==
    /\ id \in Ids(notes)
    /\ handleSelectNote(id)
    /\ ev' = Ev(op, id, 0, "")
    /\ UNCHANGED <<canvasVars, resizeListeners>>

\* DeleteClick without e.stopPropagation(): the click goes on to the note's onClick,
\* which selects the note just deleted.
DeleteClickBubbles(id) ==
    /\ id \in Ids(notes)
    /\ notes' = FilterNotes(notes, id)
    /\ selectedNoteId' = id
    /\ noteView' = Mounted(notes', noteView)
    /\ ev' = Ev("delete", id, 0, IF selectedNoteId = id THEN "selected" ELSE "")
    /\ UNCHANGED <<appNextColorIndex, nextId, canvasVars, resizeListeners>>

\* click on the note's delete control.
DeleteClick(id) ==
    /\ id \in Ids(notes)
    /\ handleDeleteNote(id)
    /\ ev' = [Ev("delete", id, 0, IF selectedNoteId = id THEN "selected" ELSE "")
               EXCEPT !.s = InSession(id)]
    /\ UNCHANGED <<canvasVars, resizeListeners>>

\* The editor's onUpdate.
EditorUpdate(id, c) ==
    /\ id \in Ids(notes)
    /\ handleUpdateNote(id, [content |-> c])
    /\ ev' = Ev("edit", id, 0, "")
    /\ UNCHANGED <<canvasVars, resizeListeners>>

\* KeyDown without the test of the event's target.
KeyDownAnyTarget(key, editable) ==
    /\ ev' = Ev("keydown", selectedNoteId, IF editable THEN 1 ELSE 0, key)
    /\ UNCHANGED <<canvasVars, resizeListeners>>
    /\ IF key \in {"Delete", "Backspace"} /\ selectedNoteId # NULL
       THEN handleDeleteNote(selectedNoteId)
       ELSE IF key = "Escape"
            THEN handleSelectNote(NULL)
            ELSE UNCHANGED <<appVars, noteView>>

\* App.handleKeyDown; editable: the target is an input, a textarea or contentEditable.
KeyDown(key, editable) ==
    /\ ev' = [Ev("keydown", selectedNoteId, IF editable THEN 1 ELSE 0, key)
               EXCEPT !.s = /\ key \in {"Delete", "Backspace"} /\ ~editable
                            /\ InSession(selectedNoteId)]
    /\ UNCHANGED <<canvasVars, resizeListeners>>
    /\ IF key \in {"Delete", "Backspace"} /\ selectedNoteId # NULL
       THEN IF editable
            THEN UNCHANGED <<appVars, noteView>>
            ELSE handleDeleteNote(selectedNoteId)
       ELSE IF key = "Escape"
            THEN handleSelectNote(NULL)
            ELSE UNCHANGED <<appVars, noteView>>

(***************************************************************************)
(* The board: initial state and next-state relation.                       *)
(***************************************************************************)
Init ==
    /\ notes = <<>>
    /\ selectedNoteId = NULL
    /\ appNextColorIndex = 0
    /\ nextId = 1
    /\ canvasState = [scale |-> R(1), offsetX |-> R(0), offsetY |-> R(0)]
    /\ isPanning = FALSE
    /\ nextColorIndex = 0
    /\ panStartRef = <<0, 0>>
    /\ canvasStartRef = <<R(0), R(0)>>
    /\ noteView = Mounted(<<>>, <<>>)
    /\ resizeListeners = <<>>
    /\ ev = Ev("init", NULL, 0, "")
    /\ budget = [steps |-> 0, wheel |-> 0, presses |-> 0, calls |-> 0, session |-> 0]

Limit == [steps |-> MaxSteps, wheel |-> MaxViewWheel, presses |-> MaxPresses,
          calls |-> MaxCalls, session |-> MaxSessionSteps]

Spend(k) == budget[k] < Limit[k] /\ budget' = [budget EXCEPT ![k] = @ + 1]
Free == UNCHANGED budget

\* Date.now() at a creation: only its being fixed at creation matters to the board.
Now == {nextId}

Step == Spend("steps")
Room == nextId <= MaxNotes

Next ==
    \/ \E b \in Buttons, p \in DownPoints : Step /\ MouseDownCanvas(b, p)
    \/ \E id \in Ids(notes), region \in Regions, b \in Buttons, p \in DownPoints :
          Step /\ MouseDownNote(id, region, b, p)
    \/ \E p \in Points : Step /\ MouseMove(p)
    \/ Step /\ MouseUp
    \/ \E ctrl \in BOOLEAN, up \in BOOLEAN, p \in Points : Step /\ Wheel(ctrl, up, p)
    \/ Step /\ zoomIn
    \/ Step /\ zoomOut
    \/ Step /\ resetZoom
    \/ Step /\ centerCanvas
    \/ \E t \in Now : Step /\ Room /\ AddNoteButton(t)
    \/ \E p \in Points, t \in Now : Step /\ Room /\ DoubleClickCanvas(p, t)
    \/ \E id \in Ids(notes), p \in Points : Step /\ DoubleClickNote(id, p)
    \/ \E id \in Ids(notes) : Step /\ SelectClick("click", id)
    \/ \E id \in Ids(notes) : Step /\ SelectClick("layer", id)
    \/ \E id \in Ids(notes) : Step /\ DeleteClick(id)
    \/ \E id \in Ids(notes), c \in Contents : Step /\ EditorUpdate(id, c)
    \/ \E key \in Keys, editable \in BOOLEAN : Step /\ KeyDown(key, editable)

Spec == Init /\ [][Next]_vars

(***************************************************************************)
(* SpecViewport: the viewport alone.  Until the first modified wheel event *)
(* the view buttons are pressed freely (they leave the offset alone, so    *)
(* the scale steps through a finite grid); modified wheel events, which    *)
(* move the offset, and the button presses after the first of them are     *)
(* bounded.                                                                *)
(***************************************************************************)
Press == IF budget.wheel = 0 THEN Free ELSE Spend("presses")

NextViewport ==
    \/ \E up \in BOOLEAN, p \in Points : Spend("wheel") /\ Wheel(TRUE, up, p)
    \/ Press /\ zoomIn
    \/ Press /\ zoomOut
    \/ Press /\ resetZoom
    \/ Press /\ centerCanvas

SpecViewport == Init /\ [][NextViewport]_vars

(***************************************************************************)
(* SpecApi: the collection's operations (App's handlers, handed to Canvas  *)
(* and Note as props) called with any identifier and any Partial<Note>.    *)
(***************************************************************************)
\* The identifiers handed out, and one that never is.
ApiIds == 1..(MaxNotes + 1)

\* Partial<Note> values: a position, a size, a content, and the two fields the type
\* does not exclude, id and createdAt.
Partials ==
    {[x |-> R(7), y |-> R(9)],
     [width |-> R(250), height |-> R(150)],
     [content |-> "<p>a</p>"],
     [id |-> MaxNotes + 1],
     [createdAt |-> 0]}

Known(id) == IF id \in Ids(notes) THEN "present" ELSE "absent"

ApiAdd(t) ==
    /\ nextId <= MaxNotes
    /\ handleAddNote(R(0), R(0), "", t)
    /\ ev' = Ev("add", nextId, 0, "")
    /\ UNCHANGED <<canvasVars, resizeListeners>>

ApiUpdate(id, updates) ==
    /\ handleUpdateNote(id, updates)
    /\ ev' = Ev("update", id, 0, Known(id))
    /\ UNCHANGED <<canvasVars, resizeListeners>>

ApiRemove(id) ==
    /\ handleDeleteNote(id)
    /\ ev' = Ev("remove", id, 0, Known(id))
    /\ UNCHANGED <<canvasVars, resizeListeners>>

ApiSelect(id) ==
    /\ handleSelectNote(id)
    /\ ev' = Ev("select", id, 0, "")
    /\ UNCHANGED <<canvasVars, resizeListeners>>

Call == Spend("calls")

NextApi ==
    \/ \E t \in Now : Call /\ ApiAdd(t)
    \/ \E id \in ApiIds, updates \in Partials : Call /\ ApiUpdate(id, updates)
    \/ \E id \in ApiIds : Call /\ ApiRemove(id)
    \/ \E id \in ApiIds \cup {NULL} : Call /\ ApiSelect(id)

SpecApi == Init /\ [][NextApi]_vars

(***************************************************************************)
(* SpecColors: notes are created, selected and deleted under the initial   *)
(* viewport; creations are bounded by MaxCreated and the notes on the      *)
(* board at once by MaxLive.                                               *)
(***************************************************************************)
Creating == nextId <= MaxCreated /\ Len(notes) < MaxLive /\ Free

NextColors ==
    \/ \E t \in Now : Creating /\ AddNoteButton(t)
    \/ \E p \in DownPoints, t \in Now : Creating /\ DoubleClickCanvas(p, t)
    \/ \E id \in Ids(notes) : Free /\ SelectClick("layer", id)
    \/ \E id \in Ids(notes) : Free /\ DeleteClick(id)
    \/ \E key \in {"Delete", "Escape"} : Free /\ KeyDown(key, FALSE)

SpecColors == Init /\ [][NextColors]_vars

(***************************************************************************)
(* SpecSessions: notes are added, dragged, resized and deleted under the   *)
(* initial viewport, with the primary button and one point of mousedown,   *)
(* for up to MaxSessionSteps events.                                       *)
(***************************************************************************)
Act == Spend("session")

NextSessions ==
    \/ \E t \in Now : Act /\ Room /\ AddNoteButton(t)
    \/ \E id \in Ids(notes), region \in {"body", "handle"}, p \in DownPoints :
          Act /\ MouseDownNote(id, region, 0, p)
    \/ \E p \in Points : Act /\ MouseMove(p)
    \/ Act /\ MouseUp
    \/ \E id \in Ids(notes) : Act /\ DeleteClick(id)
    \/ Act /\ KeyDown("Delete", FALSE)

SpecSessions == Init /\ [][NextSessions]_vars

(***************************************************************************)
(* Claims.                                                                 *)
(***************************************************************************)
Scale == canvasState.scale
Offset == <<canvasState.offsetX, canvasState.offsetY>>

\* 1 + k * ZOOM_STEP, clamped to MAX_SCALE
AfterZoomIns(k) == RMin(MAX_SCALE, RAdd(R(1), RMul(R(k), ZOOM_STEP)))

\* C1: the scale always lies in [0.25, 3.0]; k presses of the zoom-in button in a
\* row from the initial state (scale 1.0) give min(3.0, 1.0 + k * 0.1): exactly 3.0
\* from the 20th press on.
C1_ScaleInRange ==
    /\ RLe(MIN_SCALE, Scale) /\ RLe(Scale, MAX_SCALE)
    /\ (ev.op = "zoomIn" /\ ev.r = "init") =>
          IF ev.k < MaxStreak THEN Scale = AfterZoomIns(ev.k)
          ELSE RLe(AfterZoomIns(ev.k), Scale)

\* Zoom-in was pressed 21 times in a row from the initial state: the scale reached
\* 3.0 and stayed there.
C1_Witness ==
    ev.op = "zoomIn" /\ ev.r = "init" /\ ev.k = 21 /\ Scale = MAX_SCALE

\* C2: a modified wheel event at pointer p leaves the world point under p where it
\* was, and when clamping leaves the scale unchanged the offset is unchanged too.
C2_WheelAnchored ==
    [][ev'.op = "wheel" =>
        \A up \in BOOLEAN, p \in Points :
          Wheel(TRUE, up, p) =>
             /\ ToWorld(Local(p), canvasState') = ToWorld(Local(p), canvasState)
             /\ (canvasState'.scale = Scale => canvasState' = canvasState)]_vars

\* A modified wheel event changed the scale, arriving at exactly 3.0, and moved
\* the offset.
C2_Witness ==
    ev.op = "wheel" /\ ev.k = 1 /\ ev.r = "" /\ Scale = MAX_SCALE /\ Offset # <<R(0), R(0)>>

\* A modified wheel event at the upper bound: scale and offset stay as they were.
C2_WitnessClamped ==
    /\ ev.op = "wheel" /\ ev.k = 1 /\ ev.r = "same"
    /\ Scale = MAX_SCALE /\ Offset # <<R(0), R(0)>>

\* The interaction sessions active: the pan session, one drag session per note whose
\* drag listener is attached, one resize session per note with a resize listener.
Sessions == (IF isPanning THEN 1 ELSE 0) + Cardinality(Dragging) + Cardinality(Resizing)

\* C3: at most one interaction session (pan, note drag, note resize) is active at any
\* time, whatever buttons go down on whatever regions.
C3_OneSession == Sessions <= 1

\* The note with identifier id in the collection ns.
Get(ns, id) == CHOOSE n \in {ns[i] : i \in 1..Len(ns)} : n.id = id

\* C4: every note of the collection is at least 200 wide and 100 high.
C4_MinSize ==
    \A i \in 1..Len(notes) : RLe(R(200), notes[i].width) /\ RLe(R(100), notes[i].height)

\* A resize move that would have taken a note below the minimum in both directions
\* left it at exactly 200 x 100.
C4_Witness ==
    /\ ev.op = "mousemove"
    /\ \E i \in 1..Len(notes) :
          /\ notes[i].id \in Resizing
          /\ notes[i].width = R(200) /\ notes[i].height = R(100)

\* C5: a pointer-down on a note's body records the pointer and the note's position;
\* every pointer-move with the drag listener attached puts the note at the recorded
\* position plus (pointer - recorded pointer) / scale, the scale being the current one.
C5_DragAbsolute ==
    [][/\ \A id \in Ids(notes), b \in Buttons, p \in DownPoints :
             MouseDownNote(id, "body", b, p) =>
                /\ noteView'[id].dragStartRef = p
                /\ noteView'[id].noteStartRef = <<Get(notes, id).x, Get(notes, id).y>>
       /\ ev'.op = "mousemove" =>
             \A p \in Points : MouseMove(p) =>
                \A id \in Dragging :
                   LET v == noteView[id]
                       n == Get(notes', id)
                   IN  /\ n.x = RAdd(v.noteStartRef[1],
                                     RDiv(R(p[1] - v.dragStartRef[1]), Scale))
                       /\ n.y = RAdd(v.noteStartRef[2],
                                     RDiv(R(p[2] - v.dragStartRef[2]), Scale))]_vars

\* A drag move at a scale other than 1 has taken a note away from where the session
\* began.
C5_Witness ==
    /\ ev.op = "mousemove" /\ Scale # R(1)
    /\ \E id \in Dragging :
          <<Get(notes, id).x, Get(notes, id).y>> # noteView[id].noteStartRef

\* C6: whenever a note leaves the collection (delete control, Delete or Backspace
\* key), the selection becomes null if that note was selected and is kept otherwise;
\* the delete control always removes its note.
C6_DeleteSelection ==
    [][/\ \A id \in Ids(notes) \ Ids(notes') :
             selectedNoteId' = IF selectedNoteId = id THEN NULL ELSE selectedNoteId
       /\ ev'.op = "delete" => ev'.id \in Ids(notes) \ Ids(notes')]_vars

\* The delete control of a note removed it while another note was selected, and that
\* note still is.
C6_Witness ==
    ev.op = "delete" /\ ev.r = "" /\ selectedNoteId \in Ids(notes)

\* The selected note was deleted, by its control or by a key, and nothing is selected.
C6_WitnessSelected ==
    /\ selectedNoteId = NULL
    /\ \/ ev.op = "delete" /\ ev.r = "selected"
       \/ ev.op = "keydown" /\ ev.r \in {"Delete", "Backspace"} /\ ev.k = 0
          /\ ev.id # NULL /\ ev.id \notin Ids(notes)

\* C7: update and remove with an identifier that is not in the collection leave the
\* collection as it is; after remove(id), removing id again would change nothing.
C7_UnknownIdNoOp ==
    [][/\ (ev'.op \in {"update", "remove"} /\ ev'.id \notin Ids(notes)) => notes' = notes
       /\ ev'.op = "remove" =>
             /\ ev'.id \notin Ids(notes')
             /\ FilterNotes(notes', ev'.id) = notes']_vars

\* An identifier that was handed out and removed is removed a second time, from a
\* collection that still holds a note.
C7_Witness ==
    /\ ev.op = "remove" /\ ev.r = "absent"
    /\ ev.id \in 1..(nextId - 1) /\ notes # <<>>

\* An update with an identifier the collection does not hold, on a collection that
\* holds a note.
C7_WitnessUpdate ==
    ev.op = "update" /\ ev.r = "absent" /\ notes # <<>>

\* C8: every update call leaves every note's id and createdAt as they were, whatever
\* the partial fields contain.
C8_IdentityPreserved ==
    [][ev'.op = "update" =>
          /\ Len(notes') = Len(notes)
          /\ \A i \in 1..Len(notes) :
                /\ notes'[i].id = notes[i].id
                /\ notes'[i].createdAt = notes[i].createdAt]_vars

\* The world points the board computes under viewport cs: where a double-click at
\* each pointer position, and the toolbar button, would put a note.
WorldPoints(cs) == {DoubleClickPosition(p, cs) : p \in Points} \cup {AddNotePosition(cs)}

\* C9: in exact arithmetic, under every viewport, screen -> world (note creation)
\* and world -> screen (rendering) are inverses of each other, both ways round.
C9_Inverse ==
    /\ \A p \in Points : ToScreen(ToWorld(Local(p), canvasState), canvasState) = Local(p)
    /\ \A w \in WorldPoints(canvasState) :
          ToWorld(ToScreen(w, canvasState), canvasState) = w

\* A viewport zoomed by the wheel: scale not 1, offset not a whole number of pixels.
C9_Witness ==
    Scale # R(1) /\ canvasState.offsetX[2] # 1 /\ canvasState.offsetY[2] # 1

\* The screen position of note n under viewport cs.
Rendered(n, cs) == ToScreen(<<n.x, n.y>>, cs)

\* C10: wheel and view-button events leave the notes as they are; a pointer-move of a
\* pan session leaves every note outside a drag or resize session as it is, keeps the
\* scale, and renders each such note where the offset of the session's start would
\* render it, shifted by the pointer's delta since the session began.
C10_PanZoomFrame ==
    [][/\ ev'.op \in {"wheel", "zoomIn", "zoomOut", "resetZoom", "centerCanvas"} =>
             notes' = notes
       /\ (ev'.op = "mousemove" /\ isPanning) =>
             \A p \in Points : MouseMove(p) =>
                /\ canvasState'.scale = Scale
                /\ \A i \in 1..Len(notes) :
                      notes[i].id \notin Dragging \cup Resizing =>
                         LET start == [canvasState EXCEPT !.offsetX = canvasStartRef[1],
                                                          !.offsetY = canvasStartRef[2]]
                             was == Rendered(notes[i], start)
                         IN  /\ notes'[i] = notes[i]
                             /\ Rendered(notes'[i], canvasState') =
                                   <<RAdd(was[1], R(p[1] - panStartRef[1])),
                                     RAdd(was[2], R(p[2] - panStartRef[2]))>>]_vars

\* From scale 1 and offset (0, 0), a pan by (100, 50): the note at world (0, 0) is
\* still there and renders at screen (100, 50).
C10_Witness ==
    /\ ev.op = "mousemove" /\ isPanning
    /\ Scale = R(1) /\ Offset = <<R(100), R(50)>>
    /\ \E i \in 1..Len(notes) :
          /\ notes[i].x = R(0) /\ notes[i].y = R(0)
          /\ Rendered(notes[i], canvasState) = <<R(100), R(50)>>

\* C11: a pointer-down that starts a pan session records the pointer and the offset;
\* every pointer-move of the session sets the offset to the recorded offset plus
\* (pointer - recorded pointer) and keeps the scale, so a move back to the recorded
\* pointer gives the recorded offset again.
C11_PanAbsolute ==
    [][/\ \A b \in {0, 1}, p \in DownPoints :
             MouseDownCanvas(b, p) =>
                isPanning' /\ panStartRef' = p /\ canvasStartRef' = Offset
       /\ (ev'.op = "mousemove" /\ isPanning) =>
             \A p \in Points : MouseMove(p) =>
                /\ canvasState'.scale = Scale
                /\ canvasState'.offsetX = RAdd(canvasStartRef[1], R(p[1] - panStartRef[1]))
                /\ canvasState'.offsetY = RAdd(canvasStartRef[2], R(p[2] - panStartRef[2]))
                /\ p = panStartRef =>
                      <<canvasState'.offsetX, canvasState'.offsetY>> = canvasStartRef]_vars

\* A pan session that began at an offset other than (0, 0) has moved the offset away
\* from where it began.
C11_Witness ==
    /\ ev.op = "mousemove" /\ isPanning
    /\ canvasStartRef # <<R(0), R(0)>> /\ Offset # canvasStartRef

\* A pan session whose last move came back to the anchor, at an offset that an earlier
\* event had set: the offset is the session's start offset.
C11_WitnessBack ==
    /\ ev.op = "mousemove" /\ isPanning
    /\ canvasStartRef # <<R(0), R(0)>> /\ Offset = canvasStartRef

\* C12: a pointer-down with the middle button starts a pan session and clears the
\* selection on the empty canvas and on every region of a note; one with the primary
\* button does so on the empty canvas and starts no pan session on a note.
C12_MiddleButtonPans ==
    [][/\ \A b \in {0, 1}, p \in DownPoints :
             MouseDownCanvas(b, p) => isPanning' /\ selectedNoteId' = NULL
       /\ \A id \in Ids(notes), region \in Regions, p \in DownPoints :
             /\ MouseDownNote(id, region, 1, p) => isPanning' /\ selectedNoteId' = NULL
             /\ MouseDownNote(id, region, 0, p) => isPanning' = isPanning]_vars

\* The resize listener of note id that runs last on a pointer-move.
LastListener(id) ==
    LET I == {i \in 1..Len(resizeListeners) : resizeListeners[i].id = id}
    IN  resizeListeners[CHOOSE i \in I : \A j \in I : j <= i]

\* C13: every pointer-move of a resize session sets the note's size to
\* (max(200, startWidth + dx / s), max(100, startHeight + dy / s)) with (dx, dy) the
\* pointer's delta from the session's anchor and s the scale at the time of the move;
\* the position of a note that is not being dragged stays as it is.
C13_ResizeCurrentScale ==
    [][ev'.op = "mousemove" =>
          \A p \in Points : MouseMove(p) =>
             \A id \in Resizing \cap Ids(notes) :
                LET l == LastListener(id)
                    n == Get(notes', id)
                IN  /\ n.width = RMax(R(200), RAdd(l.startWidth,
                                                   RDiv(R(p[1] - l.startX), Scale)))
                    /\ n.height = RMax(R(100), RAdd(l.startHeight,
                                                    RDiv(R(p[2] - l.startY), Scale)))
                    /\ id \notin Dragging =>
                          n.x = Get(notes, id).x /\ n.y = Get(notes, id).y]_vars

\* C14: a pointer-up leaves no pan, drag or resize session active; a session begins
\* only with a pointer-down; and with no session active a pointer-move changes
\* neither the viewport nor any note.
C14_NoStaleSession ==
    [][/\ ev'.op = "mouseup" => ~SessionActive'
       /\ (~SessionActive /\ SessionActive') => ev'.op = "mousedown"
       /\ (~SessionActive /\ ev'.op = "mousemove") =>
             canvasState' = canvasState /\ notes' = notes]_vars

\* A pointer-move arrived with no session active, after a pointer-down had started a
\* pan or a drag that has since ended.
C14_Witness ==
    /\ ev.op = "mousemove" /\ ~SessionActive
    /\ \/ panStartRef # <<0, 0>>
       \/ \E id \in DOMAIN noteView : noteView[id].dragStartRef # <<0, 0>>

ViewButtons == {"zoomIn", "zoomOut", "resetZoom", "centerCanvas"}

\* C15: zoom-in and zoom-out move the scale by 0.1 up or down, clamped to
\* [0.25, 3.0], and keep the offset; reset-zoom sets the scale to 1 and keeps the
\* offset; center-view sets scale 1 and offset (0, 0); none of the four changes the
\* notes, the selection or a session.
C15_ViewButtons ==
    [][ev'.op \in ViewButtons =>
          /\ UNCHANGED <<notes, selectedNoteId, isPanning, panStartRef, canvasStartRef,
                         noteView, resizeListeners>>
          /\ ev'.op \in {"zoomIn", "zoomOut", "resetZoom"} =>
                canvasState'.offsetX = canvasState.offsetX
                /\ canvasState'.offsetY = canvasState.offsetY
          /\ ev'.op = "zoomIn" => canvasState'.scale = Clamp(RAdd(Scale, ZOOM_STEP))
          /\ ev'.op = "zoomOut" => canvasState'.scale = Clamp(RSub(Scale, ZOOM_STEP))
          /\ ev'.op = "resetZoom" => canvasState'.scale = R(1)
          /\ ev'.op = "centerCanvas" =>
                canvasState' = [scale |-> R(1), offsetX |-> R(0), offsetY |-> R(0)]]_vars

\* Reset-zoom was pressed with a note selected and in a drag session, at an offset
\* other than (0, 0): the scale is 1 and the rest is as it was.
C15_Witness ==
    /\ ev.op = "resetZoom" /\ Scale = R(1) /\ Offset # <<R(0), R(0)>>
    /\ selectedNoteId \in Dragging

\* The centre of the canvas area, relative to the canvas container.
Centre == <<RDiv(R(Rect.width), R(2)), RDiv(R(Rect.height), R(2))>>

\* Where the world point seen at the centre under from is rendered under to.
CentreAfter(from, to) == ToScreen(ToWorld(Centre, from), to)

\* C16 as stated: after a press of the zoom-in or zoom-out button the world point that
\* was at the centre of the canvas area is rendered at the centre again.
C16_CentreKept ==
    [][ev'.op \in {"zoomIn", "zoomOut"} =>
          CentreAfter(canvasState, canvasState') = Centre]_vars

\* C16, amended: a press of the zoom-in or zoom-out button keeps world (0, 0) at its
\* screen point (the offset) and moves the world point that was at the centre c to
\* c + (c - offset) * (newScale / oldScale - 1): it stays at the centre only when the
\* scale did not change or the offset is the centre itself.
C16_OriginKept ==
    [][ev'.op \in {"zoomIn", "zoomOut"} =>
          LET ratio == RDiv(canvasState'.scale, Scale)
              after == CentreAfter(canvasState, canvasState')
              shift(i) == RMul(RSub(Centre[i], Offset[i]), RSub(ratio, R(1)))
          IN  /\ ToScreen(<<R(0), R(0)>>, canvasState') = ToScreen(<<R(0), R(0)>>, canvasState)
              /\ after = <<RAdd(Centre[1], shift(1)), RAdd(Centre[2], shift(2))>>
              /\ after = Centre <=> (canvasState'.scale = Scale \/ Offset = Centre)]_vars

\* A zoom button changed the scale of a viewport whose offset is not (0, 0).
C16_Witness ==
    /\ ev.op \in {"zoomIn", "zoomOut"}
    /\ Offset # <<R(0), R(0)>> /\ Scale \notin {MIN_SCALE, MAX_SCALE}

\* C17: Delete or Backspace removes the selected note and clears the selection, unless
\* the target is editable or no note is selected, when notes and selection stay as
\* they are; Escape sets the selection to null and keeps the notes.
C17_Keyboard ==
    [][ev'.op = "keydown" =>
          LET deleting == ev'.r \in {"Delete", "Backspace"}
              editable == ev'.k = 1
          IN  /\ (deleting /\ selectedNoteId # NULL /\ ~editable) =>
                    /\ selectedNoteId \in Ids(notes)
                    /\ notes' = SelectSeq(notes, LAMBDA n : n.id # selectedNoteId)
                    /\ selectedNoteId' = NULL
              /\ (deleting /\ (selectedNoteId = NULL \/ editable)) =>
                    notes' = notes /\ selectedNoteId' = selectedNoteId
              /\ ev'.r = "Escape" => notes' = notes /\ selectedNoteId' = NULL
              /\ (~deleting /\ ev'.r # "Escape") =>
                    notes' = notes /\ selectedNoteId' = selectedNoteId]_vars

\* Delete or Backspace went down on an editable target with a note selected: the note
\* is still in the collection and still selected.
C17_Witness ==
    /\ ev.op = "keydown" /\ ev.r \in {"Delete", "Backspace"} /\ ev.k = 1
    /\ ev.id # NULL /\ selectedNoteId = ev.id /\ ev.id \in Ids(notes)

\* C18: a primary-button pointer-down on a note's toolbar, delete control or editor
\* starts no session and changes neither the viewport, nor a note, nor the selection.
C18_InnerRegionsInert ==
    [][\A id \in Ids(notes), region \in Inner, p \in DownPoints :
          MouseDownNote(id, region, 0, p) =>
             UNCHANGED <<notes, selectedNoteId, canvasState, isPanning, panStartRef,
                         canvasStartRef, noteView, resizeListeners>>]_vars

\* The primary button went down inside the selected note, on its toolbar, delete
\* control or editor: the note is still selected and no session is active.
C18_Witness ==
    /\ ev.op = "mousedown" /\ ev.r = "inner" /\ ev.k = 0
    /\ selectedNoteId = ev.id /\ ~SessionActive

\* C19: a double-click on the empty canvas at screen point p appends one note whose
\* top-left is toWorld(p) - (150, 50) under the viewport of that moment and keeps the
\* notes there were; a double-click on a note leaves the collection as it is.
C19_DoubleClick ==
    [][/\ \A p \in Points, t \in Now :
             DoubleClickCanvas(p, t) =>
                LET w == ToWorld(Local(p), canvasState)
                    n == notes'[Len(notes')]
                IN  /\ Len(notes') = Len(notes) + 1
                    /\ SubSeq(notes', 1, Len(notes)) = notes
                    /\ n.x = RSub(w[1], R(150)) /\ n.y = RSub(w[2], R(50))
       /\ \A id \in Ids(notes), p \in Points :
             DoubleClickNote(id, p) => notes' = notes]_vars

\* A double-click on the empty canvas has just added a note under a viewport with a
\* scale other than 1 and an offset other than (0, 0).
C19_Witness ==
    /\ ev.op = "dblclick" /\ notes # <<>> /\ notes[Len(notes)].id = ev.id
    /\ nextId = ev.id + 1
    /\ Scale # R(1) /\ Offset # <<R(0), R(0)>>

\* The identifiers of the notes of ns, in the order of the collection.
IdSeq(ns) == [i \in 1..Len(ns) |-> ns[i].id]

DistinctIds(ns) == \A i, j \in 1..Len(ns) : i # j => ns[i].id # ns[j].id

\* C20: an event that adds a note appends exactly one, after the notes there were and
\* leaving them as they are, with an id none of them has, size 300 x 200 and empty
\* content; every other event keeps the remaining notes in their order and adds
\* none; the ids of the collection are pairwise distinct.
C20_AppendFresh ==
    [][/\ IF ev'.op = "add" \/ (ev'.op = "dblclick" /\ ev'.id \notin Ids(notes))
          THEN LET n == notes'[Len(notes')]
               IN  /\ Len(notes') = Len(notes) + 1
                   /\ SubSeq(notes', 1, Len(notes)) = notes
                   /\ n.id \notin Ids(notes)
                   /\ n.width = R(300) /\ n.height = R(200) /\ n.content = ""
          ELSE IdSeq(notes') = SelectSeq(IdSeq(notes), LAMBDA i : i \in Ids(notes'))
       /\ DistinctIds(notes')]_vars

\* A second note was added after the first had been moved, resized or edited: it is
\* the last of the collection and the first is as it was left.
C20_Witness ==
    /\ ev.op \in {"add", "dblclick"} /\ Len(notes) = 2 /\ notes[2].id = ev.id
    /\ notes[1].id # notes[2].id
    /\ \/ notes[1].content # ""
       \/ notes[1].width # R(300)
       \/ noteView[notes[1].id].noteStartRef # <<notes[1].x, notes[1].y>>

\* The first of two notes was removed: the second is the collection.
C20_WitnessRemove ==
    /\ (ev.op = "delete" \/ (ev.op = "keydown" /\ ev.id # NULL))
    /\ Len(notes) = 1 /\ notes[1].id = 2 /\ ev.id = 1

\* The colour the note created k-th (k = 0, 1, ...) is to have.
RoundRobin(k) == NOTE_COLORS[(k % Len(NOTE_COLORS)) + 1]

\* C21: the note created k-th, by the toolbar button or by a double-click, has the
\* colour k mod 6 of the palette, whatever was deleted or selected in between.  (The
\* identifier of the model is the note's rank of creation plus one.)
C21_RoundRobin ==
    \A i \in 1..Len(notes) : notes[i].color = RoundRobin(notes[i].id - 1)

\* The seventh and the eighth note are on the board, earlier ones having been deleted:
\* the palette has wrapped around to its first two colours.
C21_Witness ==
    /\ Len(notes) = 2 /\ notes[1].id = 7 /\ notes[2].id = 8
    /\ notes[1].color = NOTE_COLORS[1] /\ notes[2].color = NOTE_COLORS[2]

\* C22: a wheel event with neither ctrl nor meta leaves the viewport as it is; one with
\* ctrl or meta replaces the viewport in one step by the zoom about the pointer; either
\* starts and ends no session and changes neither the notes nor the selection.
C22_WheelFrame ==
    [][ev'.op = "wheel" =>
          /\ ev'.k = 0 => canvasState' = canvasState
          /\ ev'.k = 1 => \E up \in BOOLEAN, p \in Points :
                              canvasState' = WheelZoom(up, p, canvasState)
          /\ isPanning' = isPanning
          /\ noteView' = noteView
          /\ resizeListeners' = resizeListeners
          /\ panStartRef' = panStartRef /\ canvasStartRef' = canvasStartRef
          /\ notes' = notes
          /\ selectedNoteId' = selectedNoteId]_vars

\* A modified wheel has zoomed while a note was selected and being dragged.
C22_Witness ==
    /\ ev.op = "wheel" /\ ev.k = 1 /\ Scale # R(1)
    /\ selectedNoteId # NULL /\ selectedNoteId \in Dragging

\* An unmodified wheel was handled while the canvas was being panned.
C22_WitnessPlain == ev.op = "wheel" /\ ev.k = 0 /\ isPanning

\* The step is a mousedown on the body of a note, which starts the drag of that note
\* (a mousedown on the resize handle adds a resize listener instead).
DragStart ==
    /\ ev'.op = "mousedown" /\ ev'.id # NULL /\ ev'.r = ""
    /\ resizeListeners' = resizeListeners

\* The step is a mousedown that starts a pan: the middle button where the event
\* reaches the canvas, or the primary button on the empty canvas.
PanStart ==
    /\ ev'.op = "mousedown"
    /\ \/ ev'.id = NULL /\ ev'.k \in {0, 1}
       \/ ev'.id # NULL /\ ev'.r = "inner" /\ ev'.k = 1

\* C23: the start of a drag selects the dragged note; the start of a pan clears the
\* selection; a pointer-up and a pointer-move, in a session or not, leave the selection
\* as it is.
C23_SessionSelection ==
    [][/\ DragStart => noteView'[ev'.id].isDragging /\ selectedNoteId' = ev'.id
       /\ PanStart => isPanning' /\ selectedNoteId' = NULL
       /\ ev'.op \in {"mouseup", "mousemove"} => selectedNoteId' = selectedNoteId]_vars

\* The drag of the first note has started while the second one, added last and so
\* selected, is on the board: the selection has moved to the first.
C23_Witness ==
    /\ ev.op = "mousedown" /\ ev.id = 1 /\ 1 \in Dragging
    /\ Len(notes) = 2 /\ selectedNoteId = 1

\* A pan has started on a board with a note, and nothing is selected.
C23_WitnessPan ==
    /\ ev.op = "mousedown" /\ ev.id = NULL /\ isPanning
    /\ notes # <<>> /\ selectedNoteId = NULL

\* A pointer-up has ended the drag of the selected note.
C23_WitnessUp ==
    /\ ev.op = "mouseup" /\ ~SessionActive
    /\ selectedNoteId # NULL /\ NoteOf(selectedNoteId).x # noteView[selectedNoteId].noteStartRef[1]

\* C24: in every reachable state the selection is null or the identifier of a note of
\* the collection.
C24_SelectionValid == selectedNoteId = NULL \/ selectedNoteId \in Ids(notes)

\* The selected note has been deleted, another note staying on the board: the
\* selection is null.
C24_Witness ==
    /\ ev.op \in {"delete", "keydown"} /\ ev.id # NULL /\ ev.id \notin Ids(notes)
    /\ notes # <<>> /\ selectedNoteId = NULL

\* A note other than the selected one has been deleted: the selection stays on a note
\* of the board.
C24_WitnessOther ==
    /\ ev.op = "delete" /\ ev.r = "" /\ selectedNoteId \in Ids(notes)

\* C25: a wheel with ctrl or meta during a pan does not end the pan and leaves the
\* offset of the session's start as it is; the pointer-move after it keeps the zoomed
\* scale and sets the offset to the offset of the session's start plus the pointer's
\* delta since the session began, so that the offset the zoom computed is dropped.
C25_ZoomDuringPan ==
    [][/\ (ev'.op = "wheel" /\ ev'.k = 1 /\ isPanning) =>
              /\ isPanning'
              /\ canvasStartRef' = canvasStartRef /\ panStartRef' = panStartRef
       /\ (ev.op = "wheel" /\ ev.k = 1 /\ isPanning /\ ev'.op = "mousemove") =>
              /\ isPanning'
              /\ Scale' = Scale
              /\ \E p \in Points :
                    Offset' = <<RAdd(canvasStartRef[1], R(p[1] - panStartRef[1])),
                                RAdd(canvasStartRef[2], R(p[2] - panStartRef[2]))>>]_vars

\* The pointer has come back to where the pan began, right after a zoom about the
\* pointer during the pan: the scale is the zoomed one and the offset is the one of the
\* session's start, so that no point of Points, the zoom's anchor among them, shows
\* the world point it shows at scale 1 with that offset.
C25_Witness ==
    /\ ev.op = "mousemove" /\ ev.r = "zoomed" /\ isPanning
    /\ Scale # R(1) /\ Offset = canvasStartRef
    /\ \A p \in Points :
          ToWorld(Local(p), canvasState) #
             ToWorld(Local(p), [scale |-> R(1), offsetX |-> canvasStartRef[1],
                                offsetY |-> canvasStartRef[2]])

\* C26: once the note of a drag or of a resize has been deleted before the pointer-up,
\* every pointer-move up to that pointer-up leaves the collection with the notes it
\* has, in their order: the deleted note does not come back, and a note that is not
\* itself being dragged or resized is left as it is.
C26_DeletedSubject ==
    [][(ev.s /\ ev'.op = "mousemove") =>
          /\ IdSeq(notes') = IdSeq(notes)
          /\ \A i \in 1..Len(notes) : ~InSession(notes[i].id) => notes'[i] = notes[i]
          /\ (Dragging \cup Resizing) \cap Ids(notes) = {} => notes' = notes]_vars

\* A pointer-move has been handled after the note being resized was deleted, its
\* listener still attached, with another note on the board.
C26_Witness ==
    /\ ev.op = "mousemove" /\ ev.s
    /\ Resizing # {} /\ Resizing \cap Ids(notes) = {} /\ notes # <<>>

\* A pointer-move has been handled after the note being dragged was deleted, with
\* another note on the board.
C26_WitnessDrag ==
    /\ ev.op = "mousemove" /\ ev.s
    /\ Resizing = {} /\ Dragging = {} /\ notes # <<>>

\* C27: a pointer-move keeps the notes and their order and, in every note, the id, the
\* content, the colour and the creation time; it changes the position of no note but
\* those being dragged, the size of no note but those being resized, and the viewport
\* only when a pan is in progress.  With one drag active and nothing else, only x and
\* y of the dragged note change; with one resize active, only width and height of the
\* resized note.
C27_MoveFrame ==
    [][ev'.op = "mousemove" =>
          /\ IdSeq(notes') = IdSeq(notes)
          /\ \A i \in 1..Len(notes) :
                LET n == notes[i]
                    m == notes'[i]
                IN  /\ m.id = n.id /\ m.content = n.content
                    /\ m.color = n.color /\ m.createdAt = n.createdAt
                    /\ n.id \notin Dragging => m.x = n.x /\ m.y = n.y
                    /\ n.id \notin Resizing => m.width = n.width /\ m.height = n.height
          /\ ~isPanning => canvasState' = canvasState]_vars

\* The first of two notes has been dragged away from where the drag began; it is the
\* only session.
C27_Witness ==
    /\ ev.op = "mousemove" /\ Len(notes) = 2
    /\ Dragging = {1} /\ Resizing = {} /\ ~isPanning
    /\ NoteOf(1).x # noteView[1].noteStartRef[1]

\* A note with edited content has been resized, and that is the only session.
C27_WitnessResize ==
    /\ ev.op = "mousemove" /\ Dragging = {} /\ ~isPanning /\ Resizing = {1}
    /\ 1 \in Ids(notes)
    /\ NoteOf(1).content # "" /\ NoteOf(1).width # R(300)

\* The step adds a note: the toolbar button, or a double-click on the empty canvas.
Adds == ev'.op = "add" \/ (ev'.op = "dblclick" /\ ev'.id \notin Ids(notes))

\* C28: every event that adds a note, by the toolbar button or by a double-click,
\* leaves the new note selected, whatever was selected before.
C28_AddSelects ==
    [][Adds => /\ Len(notes') = Len(notes) + 1
               /\ selectedNoteId' = notes'[Len(notes')].id
               /\ selectedNoteId' \notin Ids(notes)]_vars

\* A double-click has added a second note and it is the selected one, the first note,
\* selected until then, being dragged.
C28_Witness ==
    /\ ev.op = "dblclick" /\ ev.id = 2 /\ Len(notes) = 2
    /\ selectedNoteId = 2 /\ Dragging = {1}

\* The toolbar button has added a first note while nothing was selected.
C28_WitnessButton == ev.op = "add" /\ ev.id = 1 /\ selectedNoteId = 1

\* The centre of note n in world coordinates.
NoteCentre(n) == <<RAdd(n.x, RDiv(n.width, R(2))), RAdd(n.y, RDiv(n.height, R(2)))>>

\* C29: under every viewport the toolbar button puts the new note's top-left at the
\* world point shown at the centre of the canvas area minus (150, 100); the note is
\* 300 x 200, so its centre is rendered at the centre of the canvas area.
C29_AddCentred ==
    [][ev'.op = "add" =>
          LET n == notes'[Len(notes')]
              c == ToWorld(Centre, canvasState)
          IN  /\ canvasState' = canvasState
              /\ <<n.x, n.y>> = <<RSub(c[1], R(150)), RSub(c[2], R(100))>>
              /\ ToScreen(NoteCentre(n), canvasState') = Centre]_vars

\* The toolbar button has added a note under a viewport zoomed about the pointer, its
\* scale and both offsets away from the initial ones, and the note's centre is shown at
\* the centre of the canvas area.
C29_Witness ==
    /\ ev.op = "add" /\ Scale # R(1)
    /\ canvasState.offsetX # R(0) /\ canvasState.offsetY # R(0)
    /\ ToScreen(NoteCentre(notes[Len(notes)]), canvasState) = Centre
    /\ NoteCentre(notes[Len(notes)]) # Centre

====
